---- MODULE Spec2Model ----
(***************************************************************************)
(* A model of moteus/bldc_servo.cc: the BldcServo::Impl controller.        *)
(*                                                                         *)
(* Two execution contexts share the state: the 40 kHz timer interrupt      *)
(* (ISR_HandleTimer, which runs to completion and is never preempted by    *)
(* the foreground) and the foreground, which runs Command and              *)
(* PollMillisecond one statement at a time and can be preempted by the     *)
(* interrupt between any two statements.                                   *)
(*                                                                         *)
(* Floats are fixed point: a duty ratio is an integer number of            *)
(* thousandths, a voltage or a current an integer number of volts or       *)
(* amperes; NaN and the infinities are sentinels with the comparison       *)
(* behaviour of IEEE 754.                                                  *)
(***************************************************************************)
EXTENDS Integers, Sequences, FiniteSets, TLC

----------------------------------------------------------------------------
(* Modes and error codes (bldc_servo.h), kept as names.                    *)

kStopped == "kStopped"
kFault == "kFault"
kEnabling == "kEnabling"
kCalibrating == "kCalibrating"
kCalibrationComplete == "kCalibrationComplete"
kPwm == "kPwm"
kVoltage == "kVoltage"
kVoltageFoc == "kVoltageFoc"
kCurrent == "kCurrent"
kPosition == "kPosition"

ActiveModes == {kPwm, kVoltage, kVoltageFoc, kCurrent, kPosition}
ReservedModes == {kFault, kEnabling, kCalibrating, kCalibrationComplete}
Modes == {kStopped} \cup ReservedModes \cup ActiveModes

kSuccess == "kSuccess"
kEncoderFault == "kEncoderFault"
kMotorDriverFault == "kMotorDriverFault"
kOverVoltage == "kOverVoltage"
kCalibrationFault == "kCalibrationFault"

----------------------------------------------------------------------------
(* Program constants.                                                      *)

kCalibrateCount == 256
kMaxPositionDelta == 1000
kPwmCounts == 90000000 \div 80000

(* The two bounds of LimitPwm, 0.1f and 0.9f, in thousandths.              *)
kMinPwm == 100
kMaxPwm == 900

(* The centre and the tolerance of a calibrated ADC offset.                *)
kAdcCentre == 2048
kAdcTolerance == 200

(* One electrical turn, the 1.0f of fmodf, in the unit of the model's      *)
(* angles: half a count of the 65536.0f that scales position_raw.          *)
kThetaOne == 131072

----------------------------------------------------------------------------
(* Floats.                                                                 *)

NaN == 2000000000
Inf == 1000000000

IsNaN(a) == a = NaN

(* a < b and a > b of IEEE 754: false as soon as one operand is NaN.       *)
FLess(a, b) == ~IsNaN(a) /\ ~IsNaN(b) /\ a < b
FGreater(a, b) == ~IsNaN(a) /\ ~IsNaN(b) /\ a > b

FNeg(a) == IF IsNaN(a) THEN NaN ELSE 0 - a

FAbs(a) == IF IsNaN(a) THEN NaN ELSE IF a < 0 THEN 0 - a ELSE a

(* Truncating division, as a float-to-integer conversion truncates.        *)
TruncDiv(a, b) == IF a >= 0 THEN a \div b ELSE 0 - ((0 - a) \div b)

Limit(a, min, max) ==
  IF FLess(a, min) THEN min
  ELSE IF FGreater(a, max) THEN max
  ELSE a

----------------------------------------------------------------------------
(* CommandData, Status and Control (bldc_servo.h).  A Vec3 is a triple; an  *)
(* absent set_position is the empty sequence.                              *)

Vec3(a, b, c) == <<a, b, c>>

DefaultCommand ==
  [mode |-> kStopped,
   pwm |-> Vec3(0, 0, 0),
   phase_v |-> Vec3(0, 0, 0),
   theta |-> 0,
   voltage |-> 0,
   i_d_A |-> 0,
   i_q_A |-> 0,
   position |-> 0,
   velocity |-> 0,
   max_current |-> 0,
   set_position |-> <<>>]

DefaultStatus ==
  [mode |-> kStopped,
   fault |-> kSuccess,
   adc1_raw |-> 0,
   adc2_raw |-> 0,
   adc1_offset |-> kAdcCentre,
   adc2_offset |-> kAdcCentre,
   bus_V |-> 0,
   position_raw |-> 0,
   unwrapped_position_raw |-> 0,
   electrical_theta |-> 0,
   pid_d |-> 0,
   pid_q |-> 0,
   pid_position |-> 0]

DefaultControl ==
  [pwm |-> Vec3(0, 0, 0),
   voltage |-> Vec3(0, 0, 0),
   i_d_A |-> 0,
   i_q_A |-> 0]

(* Config::max_voltage, in volts.                                          *)
ConfigMaxVoltage == 40

(* Config (bldc_servo.h): motor_offset in units of 1/65536 revolution.     *)
DefaultConfig ==
  [motor_poles |-> 14,
   motor_offset |-> 0,
   max_voltage |-> ConfigMaxVoltage]

----------------------------------------------------------------------------
VARIABLES
  config_,            \* Config config_
  status_,            \* Status status_
  control_,           \* Control control_
  calibrate_adc1_,    \* uint32_t
  calibrate_adc2_,    \* uint32_t
  calibrate_count_,   \* uint16_t
  data_buffers_,      \* CommandData data_buffers_[2]
  current_data_,      \* index of the buffer current_data_ points to
  next_data_,         \* index of the buffer next_data_ points to
  telemetry_data_,    \* CommandData telemetry_data_
  pwm_ccr,            \* the registers *pwm1_ccr_, *pwm2_ccr_, *pwm3_ccr_
  motor_driver_,      \* the argument of the last Enable and Power calls
  fg,                 \* the foreground: its position and its locals
  assert_failed,      \* an MJ_ASSERT of the interrupt has failed
  stage,              \* how far start-up got since the mode was last kStopped
  run,                \* the calibration run: its ticks and their readings
  applied,            \* how often each buffer's set_position was applied
  isr                 \* the locals of the interrupt that has just returned

vars == <<config_, run, applied, status_, control_, calibrate_adc1_, calibrate_adc2_, calibrate_count_,
          data_buffers_, current_data_, next_data_, telemetry_data_,
          pwm_ccr, motor_driver_, fg, assert_failed, stage, isr>>

isr_vars == <<status_, control_, calibrate_adc1_, calibrate_adc2_,
              calibrate_count_, pwm_ccr, motor_driver_, assert_failed, stage>>

FgIdle == [pc |-> "idle", data |-> DefaultCommand, next |-> 0, tmp |-> 0,
           mode |-> kStopped]

(* stage counts the modes kEnabling, kCalibrating, kCalibrationComplete    *)
(* that status_.mode has taken, in this order, since it was last kStopped. *)
Advance(n, mode) ==
  CASE mode = kStopped -> 0
    [] mode = kEnabling /\ n = 0 -> 1
    [] mode = kCalibrating /\ n = 1 -> 2
    [] mode = kCalibrationComplete /\ n = 2 -> 3
    [] OTHER -> n

(* isr.ran holds in the state an interrupt leaves, and only there; then    *)
(* isr holds what status_ was on entry, the locals of ISR_DoSense, what    *)
(* status_ was when ISR_DoSense returned, and the command ISR_DoControl    *)
(* read through current_data_.                                             *)
IsrNone == [ran |-> FALSE, entry_mode |-> kStopped, entry_fault |-> kSuccess,
            old_position_raw |-> 0, delta_position |-> 0,
            mode |-> kStopped, fault |-> kSuccess, data |-> DefaultCommand,
            driver_fault |-> FALSE, dispatched |-> "none"]

(* run follows one stay in kCalibrating: the ticks that ran                *)
(* ISR_DoCalibrating, the sums of their readings, the first readings and   *)
(* whether all were equal to them, and the offsets before the run.  It is  *)
(* kept until the mode is kStopped or kEnabling again.                     *)
RunStart(status) ==
  [ticks |-> 0, sum1 |-> 0, sum2 |-> 0, adc1 |-> 0, adc2 |-> 0,
   steady |-> TRUE,
   offset1 |-> status.adc1_offset, offset2 |-> status.adc2_offset]

RunTick(r, status) ==
  [r EXCEPT
     !.ticks = @ + 1,
     !.sum1 = @ + status.adc1_raw,
     !.sum2 = @ + status.adc2_raw,
     !.adc1 = IF r.ticks = 0 THEN status.adc1_raw ELSE @,
     !.adc2 = IF r.ticks = 0 THEN status.adc2_raw ELSE @,
     !.steady = /\ @
                /\ r.ticks > 0 => /\ status.adc1_raw = r.adc1
                                  /\ status.adc2_raw = r.adc2]

InitState ==
  /\ status_ = DefaultStatus
  /\ control_ = DefaultControl
  /\ calibrate_adc1_ = 0
  /\ calibrate_adc2_ = 0
  /\ calibrate_count_ = 0
  /\ data_buffers_ = [i \in {0, 1} |-> DefaultCommand]
  /\ current_data_ = 0
  /\ next_data_ = 1
  /\ telemetry_data_ = DefaultCommand
  /\ pwm_ccr = Vec3(0, 0, 0)
  /\ motor_driver_ = [enable |-> FALSE, power |-> FALSE]
  /\ fg = FgIdle
  /\ assert_failed = FALSE
  /\ stage = 0
  /\ run = RunStart(DefaultStatus)
  /\ applied = [i \in {0, 1} |-> 0]
  /\ isr = IsrNone

Init ==
  /\ config_ = DefaultConfig
  /\ InitState

----------------------------------------------------------------------------
(* A failed MJ_ASSERT stops the program.                                   *)

Halted == fg.pc = "assert_failed" \/ assert_failed

----------------------------------------------------------------------------
(* The foreground: Command.                                                *)

(* Command taking the buffer to fill from current_data_.                   *)
CommandIntoCurrent(data) ==
  /\ UNCHANGED <<config_, run, applied>>
  /\ fg.pc = "idle"
  /\ ~Halted
  /\ IF data.mode \in ReservedModes
       THEN fg' = [fg EXCEPT !.pc = "assert_failed", !.data = data]
       ELSE fg' = [fg EXCEPT !.pc = "copy_mode", !.data = data,
                             !.next = current_data_]
  /\ isr' = IsrNone
  /\ UNCHANGED <<isr_vars, data_buffers_, current_data_, next_data_,
                 telemetry_data_>>

(* Command without its four MJ_ASSERTs.                                    *)
CommandUnchecked(data) ==
  /\ UNCHANGED <<config_, run, applied>>
  /\ fg.pc = "idle"
  /\ ~Halted
  /\ fg' = [fg EXCEPT !.pc = "copy_mode", !.data = data, !.next = next_data_]
  /\ isr' = IsrNone
  /\ UNCHANGED <<isr_vars, data_buffers_, current_data_, next_data_,
                 telemetry_data_>>

(* The four MJ_ASSERTs, then CommandData* next = next_data_.               *)
Command(data) ==
  /\ UNCHANGED <<config_, run, applied>>
  /\ fg.pc = "idle"
  /\ ~Halted
  /\ IF data.mode \in ReservedModes
       THEN fg' = [fg EXCEPT !.pc = "assert_failed", !.data = data]
       ELSE fg' = [fg EXCEPT !.pc = "copy_mode", !.data = data,
                             !.next = next_data_]
  /\ isr' = IsrNone
  /\ UNCHANGED <<isr_vars, data_buffers_, current_data_, next_data_,
                 telemetry_data_>>

(* *next = data, the mode field.                                           *)
CommandCopyMode ==
  /\ UNCHANGED <<config_, run, applied>>
  /\ fg.pc = "copy_mode"
  /\ ~Halted
  /\ data_buffers_' = [data_buffers_ EXCEPT ![fg.next].mode = fg.data.mode]
  /\ fg' = [fg EXCEPT !.pc = "copy_rest"]
  /\ isr' = IsrNone
  /\ UNCHANGED <<isr_vars, current_data_, next_data_, telemetry_data_>>

(* *next = data, the remaining fields; telemetry_data_ = data.             *)
CommandCopyRest ==
  /\ UNCHANGED <<config_, run>>
  /\ fg.pc = "copy_rest"
  /\ ~Halted
  /\ data_buffers_' = [data_buffers_ EXCEPT ![fg.next] = fg.data]
  /\ telemetry_data_' = fg.data
  /\ applied' = [applied EXCEPT ![fg.next] = 0]
  /\ fg' = [fg EXCEPT !.pc = "swap_load"]
  /\ isr' = IsrNone
  /\ UNCHANGED <<isr_vars, current_data_, next_data_>>

(* std::swap(current_data_, next_data_): tmp = current_data_.              *)
CommandSwapLoad ==
  /\ UNCHANGED <<config_, run, applied>>
  /\ fg.pc = "swap_load"
  /\ ~Halted
  /\ fg' = [fg EXCEPT !.pc = "swap_store_current", !.tmp = current_data_]
  /\ isr' = IsrNone
  /\ UNCHANGED <<isr_vars, data_buffers_, current_data_, next_data_,
                 telemetry_data_>>

(* std::swap: current_data_ = next_data_.                                  *)
CommandSwapStoreCurrent ==
  /\ UNCHANGED <<config_, run, applied>>
  /\ fg.pc = "swap_store_current"
  /\ ~Halted
  /\ current_data_' = next_data_
  /\ fg' = [fg EXCEPT !.pc = "swap_store_next"]
  /\ isr' = IsrNone
  /\ UNCHANGED <<isr_vars, data_buffers_, next_data_, telemetry_data_>>

(* The last store of std::swap writing current_data_ back, not tmp.        *)
CommandSwapStoreNextLost ==
  /\ UNCHANGED <<config_, run, applied>>
  /\ fg.pc = "swap_store_next"
  /\ ~Halted
  /\ next_data_' = current_data_
  /\ fg' = FgIdle
  /\ isr' = IsrNone
  /\ UNCHANGED <<isr_vars, data_buffers_, current_data_, telemetry_data_>>

(* std::swap: next_data_ = tmp; Command returns.                           *)
CommandSwapStoreNext ==
  /\ UNCHANGED <<config_, run, applied>>
  /\ fg.pc = "swap_store_next"
  /\ ~Halted
  /\ next_data_' = fg.tmp
  /\ fg' = FgIdle
  /\ isr' = IsrNone
  /\ UNCHANGED <<isr_vars, data_buffers_, current_data_, telemetry_data_>>

----------------------------------------------------------------------------
(* The foreground: PollMillisecond.                                        *)

(* PollMillisecond without the test of the mode it read.                   *)
PollMillisecondUnchecked ==
  /\ UNCHANGED <<config_, run, applied>>
  /\ fg.pc = "idle"
  /\ ~Halted
  /\ fg' = [fg EXCEPT !.pc = "poll_enable", !.mode = status_.mode]
  /\ isr' = IsrNone
  /\ UNCHANGED <<isr_vars, data_buffers_, current_data_, next_data_,
                 telemetry_data_>>

(* Mode mode = *mode_volatile; if (mode == kEnabling).                     *)
PollMillisecond ==
  /\ UNCHANGED <<config_, run, applied>>
  /\ fg.pc = "idle"
  /\ ~Halted
  /\ fg' = IF status_.mode = kEnabling
            THEN [fg EXCEPT !.pc = "poll_enable", !.mode = status_.mode]
            ELSE FgIdle
  /\ isr' = IsrNone
  /\ UNCHANGED <<isr_vars, data_buffers_, current_data_, next_data_,
                 telemetry_data_>>

(* motor_driver_->Enable(true).                                            *)
PollEnable ==
  /\ UNCHANGED <<config_, run, applied>>
  /\ fg.pc = "poll_enable"
  /\ ~Halted
  /\ motor_driver_' = [motor_driver_ EXCEPT !.enable = TRUE]
  /\ fg' = [fg EXCEPT !.pc = "poll_store"]
  /\ isr' = IsrNone
  /\ UNCHANGED <<status_, control_, calibrate_adc1_, calibrate_adc2_,
                 calibrate_count_, pwm_ccr, assert_failed, stage,
                 data_buffers_, current_data_, next_data_, telemetry_data_>>

(* PollMillisecond returning without its store to the mode.               *)
PollStoreLost ==
  /\ UNCHANGED <<config_, applied, run>>
  /\ fg.pc = "poll_store"
  /\ ~Halted
  /\ fg' = FgIdle
  /\ isr' = IsrNone
  /\ UNCHANGED <<isr_vars, data_buffers_, current_data_, next_data_,
                 telemetry_data_>>

(* *mode_volatile = kCalibrating; PollMillisecond returns.                 *)
PollStore ==
  /\ UNCHANGED <<config_, applied>>
  /\ fg.pc = "poll_store"
  /\ ~Halted
  /\ status_' = [status_ EXCEPT !.mode = kCalibrating]
  /\ stage' = Advance(stage, kCalibrating)
  /\ run' = RunStart(status_)
  /\ fg' = FgIdle
  /\ isr' = IsrNone
  /\ UNCHANGED <<control_, calibrate_adc1_, calibrate_adc2_, calibrate_count_,
                 pwm_ccr, motor_driver_, assert_failed, data_buffers_,
                 current_data_, next_data_, telemetry_data_>>

----------------------------------------------------------------------------
(* Command and PollMillisecond when no interrupt falls inside the call.    *)

CommandUninterrupted(data) ==
  /\ UNCHANGED <<config_, run>>
  /\ fg.pc = "idle"
  /\ ~Halted
  /\ IF data.mode \in ReservedModes
       THEN /\ fg' = [fg EXCEPT !.pc = "assert_failed", !.data = data]
            /\ UNCHANGED <<data_buffers_, current_data_, next_data_,
                           telemetry_data_, applied>>
       ELSE /\ data_buffers_' = [data_buffers_ EXCEPT ![next_data_] = data]
            /\ applied' = [applied EXCEPT ![next_data_] = 0]
            /\ telemetry_data_' = data
            /\ current_data_' = next_data_
            /\ next_data_' = current_data_
            /\ fg' = FgIdle
  /\ isr' = IsrNone
  /\ UNCHANGED isr_vars

PollUninterrupted ==
  /\ UNCHANGED <<config_, applied>>
  /\ fg.pc = "idle"
  /\ ~Halted
  /\ status_.mode = kEnabling
  /\ motor_driver_' = [motor_driver_ EXCEPT !.enable = TRUE]
  /\ status_' = [status_ EXCEPT !.mode = kCalibrating]
  /\ stage' = Advance(stage, kCalibrating)
  /\ run' = RunStart(status_)
  /\ isr' = IsrNone
  /\ UNCHANGED <<control_, calibrate_adc1_, calibrate_adc2_, calibrate_count_,
                 pwm_ccr, assert_failed, data_buffers_, current_data_,
                 next_data_, telemetry_data_, fg>>

----------------------------------------------------------------------------
(* The interrupt.  Its routines are operators on the record s of what the  *)
(* interrupt owns or touches: status_, control_, the calibration           *)
(* accumulators, the compare registers, the driver, the two command        *)
(* buffers, and the locals of ISR_DoSense and ISR_DoControl.  `in` is what the hardware *)
(* presents on this tick, `nd` the results of the float control law that   *)
(* the model leaves open.  ISR_MaybeEmitDebug only fills the debug frame   *)
(* and is left out.                                                        *)

Int16(x) == ((x + 32768) % 65536) - 32768

Abs(x) == IF x < 0 THEN 0 - x ELSE x

(* The difference without the cast to int16_t.                             *)
DeltaPositionUnwrapped(new_position_raw, old_position_raw) ==
  new_position_raw - old_position_raw

(* static_cast<int16_t>(status_.position_raw - old_position_raw)           *)
DeltaPosition(new_position_raw, old_position_raw) ==
  Int16(new_position_raw - old_position_raw)

(* std::abs(delta_position) > kMaxPositionDelta                            *)
PositionJump(delta_position) == Abs(delta_position) > kMaxPositionDelta

(* ::fmodf(x, y) for y > 0: the remainder of the division truncated        *)
(* towards zero, with the sign of x.                                       *)
Fmodf(x, y) == IF x >= 0 THEN x % y ELSE 0 - ((0 - x) % y)

(* fmodf(position_raw / 65536.0f * (motor_poles / 2.0f) - motor_offset,    *)
(* 1.0f), in units of 1/kThetaOne turn; k2Pi times it is electrical_theta. *)
ElectricalTheta(position_raw, config) ==
  Fmodf(position_raw * config.motor_poles - 2 * config.motor_offset,
        kThetaOne)

ISR_DoSense(s, in) ==
  LET old_position_raw == s.status.position_raw
      delta_position == DeltaPosition(in.position, old_position_raw)
      jump == s.status.mode # kStopped /\ PositionJump(delta_position)
  IN [s EXCEPT
        !.status.adc1_raw = in.adc1,
        !.status.adc2_raw = in.adc2,
        !.status.position_raw = in.position,
        !.status.electrical_theta = ElectricalTheta(in.position, s.config),
        !.status.mode = IF jump THEN kFault ELSE @,
        !.status.fault = IF jump THEN kEncoderFault ELSE @,
        !.status.unwrapped_position_raw = @ + delta_position,
        !.old_position_raw = old_position_raw,
        !.delta_position = delta_position]

(* status_.bus_V = status_.adc3_raw * config_.v_scale_V; the phase         *)
(* currents feed only the current loop, whose result is in nd.             *)
ISR_CalculateCurrentState(s, in) ==
  [s EXCEPT !.status.bus_V = in.bus_V]

(* ISR_StartCalibrating leaving the accumulators as they are.              *)
ISR_StartCalibratingKeep(s) ==
  [s EXCEPT
     !.status.mode = kEnabling,
     !.ccr = Vec3(0, 0, 0),
     !.driver.power = FALSE]

ISR_StartCalibrating(s) ==
  [s EXCEPT
     !.status.mode = kEnabling,
     !.ccr = Vec3(0, 0, 0),
     !.driver.power = FALSE,
     !.calibrate_adc1 = 0,
     !.calibrate_adc2 = 0,
     !.calibrate_count = 0]

ISR_MaybeChangeMode(s, data) ==
  CASE data.mode \in {kFault, kCalibrating, kCalibrationComplete} ->
         [s EXCEPT !.assert_failed = TRUE]
    [] data.mode = kStopped -> [s EXCEPT !.status.mode = kStopped]
    [] data.mode = kEnabling -> s
    [] data.mode \in ActiveModes ->
         CASE s.status.mode = kFault -> s
           [] s.status.mode = kStopped -> ISR_StartCalibrating(s)
           [] s.status.mode \in {kEnabling, kCalibrating} -> s
           [] s.status.mode \in {kCalibrationComplete} \cup ActiveModes ->
                [s EXCEPT !.status.mode = data.mode]

ISR_ClearPid(s) ==
  LET current_pid_active == s.status.mode \in {kCurrent, kPosition}
      position_pid_active == s.status.mode = kPosition
  IN [s EXCEPT
        !.status.pid_d = IF current_pid_active THEN @ ELSE 0,
        !.status.pid_q = IF current_pid_active THEN @ ELSE 0,
        !.status.pid_position = IF position_pid_active THEN @ ELSE 0]

(* ISR_DoStopped without its two calls into the driver.                    *)
ISR_DoStoppedPwmOnly(s) ==
  [s EXCEPT !.ccr = Vec3(0, 0, 0)]

ISR_DoStopped(s) ==
  [s EXCEPT
     !.driver.enable = FALSE,
     !.driver.power = FALSE,
     !.ccr = Vec3(0, 0, 0)]

ISR_DoFault(s) ==
  [s EXCEPT
     !.driver.power = FALSE,
     !.ccr = Vec3(0, 0, 0)]

(* static_cast<uint16_t>(x) of a value the uint16_t holds.                 *)
Uint16(x) == x % 65536

(* A check of the upper limit alone.                                       *)
CalibrationOutOfRangeHigh(new_adc_offset) ==
  new_adc_offset - kAdcCentre > kAdcTolerance

(* std::abs(static_cast<int>(new_adc_offset) - 2048) > 200                 *)
CalibrationOutOfRange(new_adc_offset) ==
  Abs(new_adc_offset - kAdcCentre) > kAdcTolerance

(* ISR_DoCalibrating faulting out without an error code.                  *)
ISR_DoCalibratingNoCode(s) ==
  LET adc1 == s.calibrate_adc1 + s.status.adc1_raw
      adc2 == s.calibrate_adc2 + s.status.adc2_raw
      count == Uint16(s.calibrate_count + 1)
      s1 == [s EXCEPT !.calibrate_adc1 = adc1,
                      !.calibrate_adc2 = adc2,
                      !.calibrate_count = count]
      new_adc1_offset == Uint16(adc1 \div kCalibrateCount)
      new_adc2_offset == Uint16(adc2 \div kCalibrateCount)
  IN IF count < kCalibrateCount THEN s1
     ELSE IF \/ CalibrationOutOfRange(new_adc1_offset)
             \/ CalibrationOutOfRange(new_adc2_offset)
     THEN [s1 EXCEPT !.status.mode = kFault]
     ELSE [s1 EXCEPT !.status.adc1_offset = new_adc1_offset,
                     !.status.adc2_offset = new_adc2_offset,
                     !.status.mode = kCalibrationComplete]

ISR_DoCalibrating(s) ==
  LET adc1 == s.calibrate_adc1 + s.status.adc1_raw
      adc2 == s.calibrate_adc2 + s.status.adc2_raw
      count == Uint16(s.calibrate_count + 1)
      s1 == [s EXCEPT !.calibrate_adc1 = adc1,
                      !.calibrate_adc2 = adc2,
                      !.calibrate_count = count]
      new_adc1_offset == Uint16(adc1 \div kCalibrateCount)
      new_adc2_offset == Uint16(adc2 \div kCalibrateCount)
  IN IF count < kCalibrateCount THEN s1
     ELSE IF \/ CalibrationOutOfRange(new_adc1_offset)
             \/ CalibrationOutOfRange(new_adc2_offset)
     THEN [s1 EXCEPT !.status.mode = kFault,
                     !.status.fault = kCalibrationFault]
     ELSE [s1 EXCEPT !.status.adc1_offset = new_adc1_offset,
                     !.status.adc2_offset = new_adc2_offset,
                     !.status.mode = kCalibrationComplete]

(* A clamp to [0, 1].                                                      *)
LimitPwmFullScale(in) == Limit(in, 0, 1000)

LimitPwm(in) == Limit(in, kMinPwm, kMaxPwm)

(* static_cast<uint16_t>(pwm * kPwmCounts): the product truncated; the     *)
(* conversion of a NaN is undefined, and `undefined` is what it gives.     *)
PwmToCounts(pwm, undefined) ==
  IF IsNaN(pwm) THEN undefined
  ELSE Uint16(TruncDiv(pwm * kPwmCounts, 1000))

ISR_DoPwmControl(s, pwm, nd) ==
  LET a == LimitPwm(pwm[1])
      b == LimitPwm(pwm[2])
      c == LimitPwm(pwm[3])
  IN [s EXCEPT
        !.control.pwm = Vec3(a, b, c),
        !.ccr = Vec3(PwmToCounts(a, nd.cast[1]),
                     PwmToCounts(c, nd.cast[3]),
                     PwmToCounts(b, nd.cast[2])),
        !.driver.power = TRUE]

(* a + b and a / b of floats, here on thousandths.                         *)
FAdd(a, b) ==
  IF IsNaN(a) \/ IsNaN(b) THEN NaN
  ELSE IF Abs(b) >= Inf THEN b
  ELSE IF Abs(a) >= Inf THEN a
  ELSE a + b

FDiv(a, b) ==
  IF IsNaN(a) \/ IsNaN(b) THEN NaN
  ELSE IF b = 0 THEN (IF a = 0 THEN NaN ELSE IF a > 0 THEN Inf ELSE 0 - Inf)
  ELSE IF Abs(a) >= Inf THEN (IF (a > 0) = (b > 0) THEN Inf ELSE 0 - Inf)
  ELSE TruncDiv(a, Abs(b)) * (IF b > 0 THEN 1 ELSE 0 - 1)

(* 0.5f + 2.0f * v / status_.bus_V, v and bus_V in volts, in thousandths.  *)
VoltageToPwm(v, bus_V) ==
  FAdd(500, FDiv(IF IsNaN(v) \/ Abs(v) >= Inf THEN v ELSE 2000 * v, bus_V))

ISR_DoVoltageControl(s, voltage, nd) ==
  ISR_DoPwmControl([s EXCEPT !.control.voltage = voltage],
                   Vec3(VoltageToPwm(voltage[1], s.status.bus_V),
                        VoltageToPwm(voltage[2], s.status.bus_V),
                        VoltageToPwm(voltage[3], s.status.bus_V)),
                   nd)

(* InverseDqTransform(sin_cos, d, q) of foc.h: the three phase voltages.   *)
InverseDqTransform(d, q, nd) == nd.idt

ISR_DoVoltageFOC(s, theta, voltage, nd) ==
  ISR_DoVoltageControl(s, InverseDqTransform(0, voltage, nd), nd)

(* pid_d_.Apply and pid_q_.Apply leave their state in status_.pid_d and    *)
(* status_.pid_q; d_V and q_V go to InverseDqTransform.                    *)
ISR_DoCurrent(s, i_d_A, i_q_A, nd) ==
  ISR_DoVoltageControl(
    [s EXCEPT !.control.i_d_A = i_d_A,
              !.control.i_q_A = i_q_A,
              !.status.pid_d = nd.pid_d,
              !.status.pid_q = nd.pid_q],
    InverseDqTransform(nd.d_V, nd.q_V, nd), nd)

(* a <= b of IEEE 754.                                                     *)
FLessEq(a, b) == ~IsNaN(a) /\ ~IsNaN(b) /\ a <= b

ISR_DoPosition(s, position, velocity, max_current, nd) ==
  LET unlimited_d_A == nd.unlimited_d_A
      d_A == Limit(unlimited_d_A, FNeg(max_current), max_current)
      s1 == [s EXCEPT !.status.pid_position = nd.pid_position]
  IN IF ~FLessEq(FAbs(d_A), max_current)
     THEN [s1 EXCEPT !.assert_failed = TRUE]
     ELSE ISR_DoCurrent(s1, d_A, 0, nd)

ISR_Dispatch(s, data, nd) ==
  CASE s.status.mode = kStopped -> ISR_DoStopped(s)
    [] s.status.mode = kFault -> ISR_DoFault(s)
    [] s.status.mode = kEnabling -> s
    [] s.status.mode = kCalibrating -> ISR_DoCalibrating(s)
    [] s.status.mode = kCalibrationComplete -> s
    [] s.status.mode = kPwm -> ISR_DoPwmControl(s, data.pwm, nd)
    [] s.status.mode = kVoltage -> ISR_DoVoltageControl(s, data.phase_v, nd)
    [] s.status.mode = kVoltageFoc ->
         ISR_DoVoltageFOC(s, data.theta, data.voltage, nd)
    [] s.status.mode = kCurrent ->
         ISR_DoCurrent(s, data.i_d_A, data.i_q_A, nd)
    [] s.status.mode = kPosition ->
         ISR_DoPosition(s, data.position, data.velocity, data.max_current, nd)

(* The int32_t of set_position * 65536.0f, set_position in whole           *)
(* revolutions.                                                            *)
SetPositionRaw(set_position) == set_position * 65536

(* The override without data->set_position = {}.                          *)
ISR_ApplySetPositionKeep(s, current) ==
  LET data == s.buffers[current]
  IN IF data.set_position # <<>>
     THEN [s EXCEPT
             !.status.unwrapped_position_raw =
                SetPositionRaw(data.set_position[1]),
             !.set_position_applied = TRUE]
     ELSE s

(* if (data->set_position) { ... data->set_position = {}; }                *)
ISR_ApplySetPosition(s, current) ==
  LET data == s.buffers[current]
  IN IF data.set_position # <<>>
     THEN [s EXCEPT
             !.status.unwrapped_position_raw =
                SetPositionRaw(data.set_position[1]),
             !.buffers[current].set_position = <<>>,
             !.set_position_applied = TRUE]
     ELSE s

(* The two checks in the other order.                                      *)
ISR_FaultCheckVoltageFirst(s, in) ==
  IF s.status.mode = kStopped THEN kSuccess
  ELSE IF s.status.bus_V > s.config.max_voltage THEN kOverVoltage
  ELSE IF in.fault THEN kMotorDriverFault
  ELSE kSuccess

(* The two checks made after a mode change that does not end in kStopped:  *)
(* the fault they raise, kSuccess if none.                                 *)
ISR_FaultCheck(s, in) ==
  IF s.status.mode = kStopped THEN kSuccess
  ELSE IF in.fault THEN kMotorDriverFault
  ELSE IF s.status.bus_V > s.config.max_voltage THEN kOverVoltage
  ELSE kSuccess

(* ISR_DoControl without the reset of the fault code.                      *)
ISR_ResetFaultNever(s) == s

(* if (status_.mode != kFault) { status_.fault = errc::kSuccess; }         *)
ISR_ResetFault(s) ==
  [s EXCEPT !.status.fault = IF s.status.mode # kFault THEN kSuccess ELSE @]

(* Only({e}) is e.  ISR_DoControl and ISR_DoTimer bind each intermediate   *)
(* state through it, so that the state is computed once however often the  *)
(* statements that follow read it.                                         *)
Only(S) == CHOOSE x \in S : TRUE

ISR_DoControl(s, current, in, nd) ==
  LET data == s.buffers[current]
      s1 == [s EXCEPT !.control = DefaultControl, !.data = data]
      Reconciled(s2) ==
        IF data.mode # s2.status.mode
        THEN ISR_MaybeChangeMode(s2, data)
        ELSE s2
      Raised(s2, s3) ==
        IF data.mode # s2.status.mode
        THEN ISR_FaultCheck(s3, in)
        ELSE kSuccess
      Control(s2, s3) ==
        IF s3.assert_failed THEN s3
        ELSE IF Raised(s2, s3) # kSuccess
        THEN [s3 EXCEPT !.status.mode = kFault,
                        !.status.fault = Raised(s2, s3)]
        ELSE Only({ISR_Dispatch([s4 EXCEPT !.dispatched = s4.status.mode],
                                s2.buffers[current], nd) :
                     s4 \in {ISR_ResetFault(ISR_ClearPid(s3))}})
  IN Only({Only({Control(s2, s3) : s3 \in {Reconciled(s2)}}) :
             s2 \in {ISR_ApplySetPosition(s1, current)}})

ISR_DoTimer(s, current, in, nd) ==
  Only({ISR_DoControl(calc, current, in, nd) :
          calc \in {ISR_CalculateCurrentState(ISR_DoSense(s, in), in)}})

----------------------------------------------------------------------------
(* ISR_HandleTimer: one update interrupt, run to completion.               *)

IsrState ==
  [config |-> config_,
   status |-> status_,
   control |-> control_,
   calibrate_adc1 |-> calibrate_adc1_,
   calibrate_adc2 |-> calibrate_adc2_,
   calibrate_count |-> calibrate_count_,
   ccr |-> pwm_ccr,
   driver |-> motor_driver_,
   buffers |-> data_buffers_,
   data |-> DefaultCommand,
   old_position_raw |-> 0,
   delta_position |-> 0,
   set_position_applied |-> FALSE,
   dispatched |-> "none",
   assert_failed |-> FALSE]

(* A read through next_data_.                                              *)
ISR_ReadNextData == next_data_

(* CommandData* data = current_data_                                       *)
ISR_ReadCurrentData == current_data_

ISR_HandleTimer(in, nd) ==
  /\ ~Halted
  /\ \E sensed \in {ISR_DoSense(IsrState, in)} :
     \E t \in {ISR_DoTimer(IsrState, ISR_ReadCurrentData, in, nd)} :
        /\ status_' = t.status
        /\ control_' = t.control
        /\ calibrate_adc1_' = t.calibrate_adc1
        /\ calibrate_adc2_' = t.calibrate_adc2
        /\ calibrate_count_' = t.calibrate_count
        /\ pwm_ccr' = t.ccr
        /\ motor_driver_' = t.driver
        /\ data_buffers_' = t.buffers
        /\ assert_failed' = t.assert_failed
        /\ stage' = Advance(stage, t.status.mode)
        /\ run' = IF t.dispatched = kCalibrating
                  THEN RunTick(run, t.status)
                  ELSE IF t.status.mode \in {kStopped, kEnabling}
                  THEN RunStart(t.status)
                  ELSE run
        /\ applied' = IF t.set_position_applied
                      THEN [applied EXCEPT ![ISR_ReadCurrentData] = @ + 1]
                      ELSE applied
        /\ isr' = [ran |-> TRUE,
                   entry_mode |-> status_.mode,
                   entry_fault |-> status_.fault,
                   old_position_raw |-> sensed.old_position_raw,
                   delta_position |-> sensed.delta_position,
                   mode |-> sensed.status.mode,
                   fault |-> sensed.status.fault,
                   data |-> t.data,
                   driver_fault |-> in.fault,
                   dispatched |-> t.dispatched]
  /\ UNCHANGED <<config_, current_data_, next_data_, telemetry_data_, fg>>

----------------------------------------------------------------------------
(* What the environment presents.                                          *)

(* The commands the foreground submits.                                    *)
CmdStopped == DefaultCommand
CmdPwm == [DefaultCommand EXCEPT !.mode = kPwm, !.pwm = Vec3(500, 0, 1000)]
Commands == {CmdStopped, CmdPwm}

(* The commands Command must not be given.                                 *)
RejectedCommands == {[DefaultCommand EXCEPT !.mode = m] : m \in ReservedModes}

(* The first MaxCalDisturb ticks of a calibration run and its last tick    *)
(* see any input and any foreground step; the ticks between see steady     *)
(* inputs and no foreground step.                                          *)
MaxCalDisturb == 2

Quiet ==
  /\ status_.mode = kCalibrating
  /\ calibrate_count_ >= MaxCalDisturb
  /\ calibrate_count_ < kCalibrateCount - 1

SteadyInput ==
  [position |-> status_.position_raw,
   adc1 |-> status_.adc1_raw,
   adc2 |-> status_.adc2_raw,
   bus_V |-> status_.bus_V,
   fault |-> FALSE]

(* motor_driver_->fault() is read only by a tick that reconciles the mode, *)
(* so only such a tick is presented with both of its answers.              *)
FaultConsulted(position) ==
  LET jump == /\ status_.mode # kStopped
              /\ PositionJump(DeltaPosition(position, status_.position_raw))
      mode == IF jump THEN kFault ELSE status_.mode
  IN data_buffers_[current_data_].mode # mode

Inputs(positions, adcs, buses, faults) ==
  IF Quiet THEN {SteadyInput}
  ELSE UNION {
    {[position |-> p, adc1 |-> a[1], adc2 |-> a[2], bus_V |-> b, fault |-> f] :
       a \in adcs, b \in buses,
       f \in IF FaultConsulted(p) THEN faults ELSE {FALSE}} :
    p \in positions}

NoChoice ==
  [idt |-> Vec3(0, 0, 0), cast |-> Vec3(0, 0, 0), unlimited_d_A |-> 0,
   pid_d |-> 0, pid_q |-> 0, pid_position |-> 0, d_V |-> 0, q_V |-> 0]

(* Spec: every interleaving of the interrupt with the foreground's steps.  *)
(* The sensor is still or jumps by 1001; the ADCs read the centre; the bus *)
(* is nominal or above ConfigMaxVoltage.                                   *)
Tick ==
  \E in \in Inputs({0, 1001}, {<<2048, 2048>>}, {24, 50}, BOOLEAN) :
    ISR_HandleTimer(in, NoChoice)

Next ==
  \/ Tick
  \/ ~Quiet /\ \E data \in Commands \cup RejectedCommands : Command(data)
  \/ ~Quiet /\ CommandCopyMode
  \/ ~Quiet /\ CommandCopyRest
  \/ ~Quiet /\ CommandSwapLoad
  \/ ~Quiet /\ CommandSwapStoreCurrent
  \/ ~Quiet /\ CommandSwapStoreNext
  \/ ~Quiet /\ PollMillisecond
  \/ ~Quiet /\ PollEnable
  \/ ~Quiet /\ PollStore

Spec == Init /\ [][Next]_vars

(* SpecSense: every interleaving again, with a sensor that also steps by   *)
(* one across the wrap and by exactly kMaxPositionDelta, a nominal bus, no *)
(* driver fault, and the commands Stopped and Pwm.                         *)
PositionSamples == {0, 1000, 1001, 65535}

TickSense ==
  \E in \in Inputs(PositionSamples, {<<2048, 2048>>}, {24}, {FALSE}) :
    ISR_HandleTimer(in, NoChoice)

NextSense ==
  \/ TickSense
  \/ ~Quiet /\ \E data \in {CmdStopped, CmdPwm} : Command(data)
  \/ ~Quiet /\ CommandCopyMode
  \/ ~Quiet /\ CommandCopyRest
  \/ ~Quiet /\ CommandSwapLoad
  \/ ~Quiet /\ CommandSwapStoreCurrent
  \/ ~Quiet /\ CommandSwapStoreNext
  \/ ~Quiet /\ PollMillisecond
  \/ ~Quiet /\ PollEnable
  \/ ~Quiet /\ PollStore

SpecSense == Init /\ [][NextSense]_vars

(* SpecCal: every interleaving, with ADC readings on both limits of the    *)
(* tolerance and one count beyond them, a driver that can report a fault,  *)
(* a sensor that stands still and a nominal bus.  The readings are drawn   *)
(* anew for the first and for the last tick of a calibration run, stay as  *)
(* they are between the two, and are at the centre in the other modes.     *)
AdcSamples ==
  {<<kAdcCentre, kAdcCentre>>,
   <<kAdcCentre + kAdcTolerance, kAdcCentre - kAdcTolerance>>,
   <<kAdcCentre + kAdcTolerance + 1, kAdcCentre>>,
   <<kAdcCentre, kAdcCentre - kAdcTolerance - 1>>}

AdcPresented ==
  IF status_.mode # kCalibrating THEN {<<kAdcCentre, kAdcCentre>>}
  ELSE IF calibrate_count_ \in {0, kCalibrateCount - 1} THEN AdcSamples
  ELSE {<<status_.adc1_raw, status_.adc2_raw>>}

TickCal ==
  \E in \in Inputs({0}, AdcPresented, {24}, BOOLEAN) :
    ISR_HandleTimer(in, NoChoice)

NextCal ==
  \/ TickCal
  \/ ~Quiet /\ \E data \in Commands : Command(data)
  \/ ~Quiet /\ CommandCopyMode
  \/ ~Quiet /\ CommandCopyRest
  \/ ~Quiet /\ CommandSwapLoad
  \/ ~Quiet /\ CommandSwapStoreCurrent
  \/ ~Quiet /\ CommandSwapStoreNext
  \/ ~Quiet /\ PollMillisecond
  \/ ~Quiet /\ PollEnable
  \/ ~Quiet /\ PollStore

SpecCal == Init /\ [][NextCal]_vars

(* SpecModes: all five control modes with payloads on and beyond the       *)
(* limits, a sensor that stands still, a bus that reads 0 V or 24 V, and   *)
(* the open results of the control law.  The interrupt runs between the    *)
(* foreground's calls, not inside them.                                    *)
CmdVoltage ==
  [DefaultCommand EXCEPT !.mode = kVoltage, !.phase_v = Vec3(12, 0, 0 - 12)]
CmdPwmNaN == [DefaultCommand EXCEPT !.mode = kPwm, !.pwm = Vec3(NaN, 0, 1000)]
CmdVoltageFoc ==
  [DefaultCommand EXCEPT !.mode = kVoltageFoc, !.theta = 0, !.voltage = 6]
CmdCurrent == [DefaultCommand EXCEPT !.mode = kCurrent, !.i_d_A = 1]
CmdPosition == [DefaultCommand EXCEPT !.mode = kPosition, !.max_current = 10]
CmdPositionNegative ==
  [DefaultCommand EXCEPT !.mode = kPosition, !.max_current = 0 - 1]

CommandsModes ==
  {CmdStopped, CmdPwmNaN, CmdVoltage, CmdVoltageFoc, CmdCurrent, CmdPosition,
   CmdPositionNegative}

(* What a conversion of NaN to uint16_t may give.                          *)
UndefinedCounts == {0, 65535}

(* Results of InverseDqTransform, in volts.                                *)
IdtSamples == {Vec3(12, 0 - 6, 0 - 3), Vec3(NaN, Inf, 0 - Inf)}

(* Results of pid_position_.Apply, in amperes, with the PID state the call *)
(* leaves: 0 when all its fields are zero.                                 *)
PidSamples == {<<0 - 20, 1>>, <<5, 1>>}

(* The mode the tick dispatches on decides which results are drawn, and a  *)
(* NaN duty whether a conversion is undefined.                             *)
DispatchMode(in) ==
  ISR_DoTimer(IsrState, ISR_ReadCurrentData, in, NoChoice).status.mode

Choices(in) ==
  LET mode == DispatchMode(in)
      idts == IF mode \in {kVoltageFoc, kCurrent, kPosition}
              THEN IdtSamples ELSE {NoChoice.idt}
      pids == IF mode \in {kCurrent, kPosition} THEN PidSamples ELSE {<<0, 0>>}
      Drawn(i, p, u) ==
        [idt |-> i, cast |-> Vec3(u, u, u), unlimited_d_A |-> p[1],
         pid_d |-> p[2], pid_q |-> p[2],
         pid_position |-> IF mode = kPosition THEN p[2] ELSE 0,
         d_V |-> 0, q_V |-> 0]
      HasNaN(nd) ==
        LET t == ISR_DoTimer(IsrState, ISR_ReadCurrentData, in, nd)
        IN \E k \in 1..3 : IsNaN(t.control.pwm[k])
  IN IF mode \notin ActiveModes THEN {NoChoice}
     ELSE UNION {IF HasNaN(Drawn(i, p, 0))
                 THEN {Drawn(i, p, u) : u \in UndefinedCounts}
                 ELSE {Drawn(i, p, 0)} : i \in idts, p \in pids}

TickModes ==
  \E in \in Inputs({0}, {<<2048, 2048>>}, {0, 24}, BOOLEAN) :
    \E nd \in Choices(in) : ISR_HandleTimer(in, nd)

NextModes ==
  \/ TickModes
  \/ ~Quiet /\ \E data \in CommandsModes : CommandUninterrupted(data)
  \/ ~Quiet /\ PollUninterrupted

SpecModes == Init /\ [][NextModes]_vars

----------------------------------------------------------------------------
(* Claims checked under Spec.                                              *)

ZeroPwm == pwm_ccr = Vec3(0, 0, 0)

(* C1: whenever status_.mode is kFault, the three compare registers are 0  *)
(* and the last Power call was Power(false).                               *)
C1_FaultIsUnpowered ==
  status_.mode = kFault => ZeroPwm /\ ~motor_driver_.power

(* C2: the first mode that follows kFault and differs from it is kStopped. *)
C2_FaultLeavesToStopped ==
  [][status_.mode = kFault => status_.mode' \in {kFault, kStopped}]_vars

(* C3: an active mode is only reached after kEnabling, kCalibrating and    *)
(* kCalibrationComplete were taken, in this order, since the mode was last *)
(* kStopped.                                                               *)
C3_StartupVisitsAll ==
  status_.mode \in ActiveModes => stage = 3

(* C4: a tick that reads a command of mode kStopped ends with             *)
(* status_.mode = kStopped, the three compare registers 0, and the driver  *)
(* last told Enable(false) and Power(false), whatever the mode was on      *)
(* entry and whatever ISR_DoSense found.                                   *)
C4_StoppedAccepted ==
  (isr.ran /\ isr.data.mode = kStopped) =>
     /\ status_.mode = kStopped
     /\ ZeroPwm
     /\ ~motor_driver_.enable
     /\ ~motor_driver_.power

C4_StoppedOnGlitch ==
  /\ isr.ran
  /\ isr.data.mode = kStopped
  /\ isr.entry_mode = kPwm
  /\ isr.mode = kFault
  /\ isr.fault = kEncoderFault
  /\ status_.mode = kStopped

(* C5 as stated: current_data_ and next_data_ differ in every state.       *)
C5_PointersAlwaysDiffer == current_data_ # next_data_

(* C5: current_data_ and next_data_ designate different buffers except     *)
(* between the two stores of std::swap, where both designate the buffer    *)
(* just written and the foreground's temporary designates the other.       *)
C5_PointersDifferOutsideSwap ==
  IF fg.pc = "swap_store_next"
  THEN current_data_ = next_data_ /\ fg.tmp # current_data_
       /\ current_data_ = fg.next
  ELSE current_data_ # next_data_

C5_InsideSwap ==
  /\ isr.ran
  /\ fg.pc = "swap_store_next"
  /\ current_data_ = next_data_
  /\ isr.data = fg.data
  /\ fg.data.mode # kStopped

WholeCommands ==
  Commands \cup {[c EXCEPT !.set_position = <<>>] : c \in Commands}

(* C6: the buffer current_data_ designates is never the one Command is     *)
(* writing, and it holds a command that was passed whole to Command (or    *)
(* the initial one), in every state an interrupt can start in.             *)
C6_CurrentBufferWhole ==
  /\ data_buffers_[current_data_] \in WholeCommands
  /\ fg.pc \in {"copy_mode", "copy_rest"} => fg.next # current_data_
  /\ isr.ran => isr.data \in WholeCommands

C6_InterruptDuringCopy ==
  /\ isr.ran
  /\ fg.pc = "copy_rest"
  /\ data_buffers_[fg.next] \notin WholeCommands
  /\ isr.data = CmdPwm
  /\ status_.mode = kPwm

(* The modes a tick can end in when it entered ISR_DoControl in mode `from` *)
(* and read a command of mode `to`.                                        *)
Reconciled(from, to) ==
  CASE to = kStopped -> {kStopped}
    [] to = from -> {from, kFault}
    [] from = kFault -> {kFault}
    [] from = kStopped -> {kEnabling, kFault}
    [] from = kEnabling -> {kEnabling, kFault}
    [] from = kCalibrating -> {kCalibrating, kCalibrationComplete, kFault}
    [] OTHER -> {to, kFault}

(* C7: an interrupt that starts after Command(c) has returned, with no     *)
(* Command call since, reads c (less a set_position an earlier interrupt   *)
(* consumed) and reconciles status_.mode against c.mode.                   *)
C7_NextTickReadsCommand ==
  (isr.ran /\ fg.pc = "idle") =>
     /\ isr.data \in {telemetry_data_,
                      [telemetry_data_ EXCEPT !.set_position = <<>>]}
     /\ status_.mode \in Reconciled(isr.mode, telemetry_data_.mode)

C7_Superseded ==
  /\ isr.ran
  /\ fg.pc = "idle"
  /\ telemetry_data_ = CmdStopped
  /\ data_buffers_[next_data_] = CmdPwm
  /\ isr.entry_mode = kPwm
  /\ status_.mode = kStopped

(* C8: whenever an interrupt can start with status_.mode = kCalibrating,   *)
(* the last Enable call was Enable(true).                                  *)
C8_CalibratingIsEnabled ==
  status_.mode = kCalibrating => motor_driver_.enable

----------------------------------------------------------------------------
(* Claims checked under SpecModes.                                         *)

(* The duty a compare register is written from: a to 1, c to 2, b to 3.    *)
DutyOf(pwm, k) == pwm[CASE k = 1 -> 1 [] k = 2 -> 3 [] k = 3 -> 2]

MinCounts == TruncDiv(kMinPwm * kPwmCounts, 1000)
MaxCounts == TruncDiv(kMaxPwm * kPwmCounts, 1000)

----------------------------------------------------------------------------
(* Claims checked under SpecSense.                                         *)

(* C10: delta_position is the signed 16-bit difference of the new and the  *)
(* previous position_raw; ISR_DoSense leaves kFault and kEncoderFault when *)
(* the mode on entry is not kStopped and |delta_position| > 1000, and      *)
(* leaves mode and fault as they were otherwise; after a jump the tick     *)
(* ends in kFault unless the command it reads is kStopped.                 *)
C10_EncoderFault ==
  isr.ran =>
    /\ isr.delta_position \in (0 - 32768)..32767
    /\ (isr.delta_position - (status_.position_raw - isr.old_position_raw))
         % 65536 = 0
    /\ IF isr.entry_mode # kStopped /\ Abs(isr.delta_position) > 1000
       THEN /\ isr.mode = kFault
            /\ isr.fault = kEncoderFault
            /\ isr.data.mode # kStopped => status_.mode = kFault
       ELSE /\ isr.mode = isr.entry_mode
            /\ isr.fault = isr.entry_fault

C10_JumpAcrossWrap ==
  /\ isr.ran
  /\ isr.entry_mode = kPwm
  /\ isr.old_position_raw = 65535
  /\ status_.position_raw = 1001
  /\ isr.delta_position = 1002
  /\ status_.mode = kFault
  /\ status_.fault = kEncoderFault

----------------------------------------------------------------------------
(* Claims checked under SpecCal.                                           *)

InTolerance(adc) == Abs(adc - kAdcCentre) <= kAdcTolerance

(* The tick that has just returned ran ISR_DoCalibrating.                  *)
CalibratingTick == isr.ran /\ isr.dispatched = kCalibrating

(* C11: the accumulators of a run hold exactly the readings of its ticks;  *)
(* the mode stays kCalibrating on each of the first 255 ticks of a run;    *)
(* the 256th tick of a run of equal readings r1, r2 within 200 of 2048     *)
(* ends in kCalibrationComplete with adc1_offset = r1 and adc2_offset = r2.*)
C11_CalibrationExact ==
  /\ status_.mode = kCalibrating =>
        /\ run.ticks < kCalibrateCount
        /\ calibrate_count_ = run.ticks
        /\ calibrate_adc1_ = run.sum1
        /\ calibrate_adc2_ = run.sum2
  /\ status_.mode = kCalibrationComplete => run.ticks = kCalibrateCount
  /\ CalibratingTick =>
        /\ run.ticks <= kCalibrateCount
        /\ run.ticks < kCalibrateCount => status_.mode = kCalibrating
        /\ ( /\ run.ticks = kCalibrateCount
             /\ run.steady
             /\ InTolerance(run.adc1)
             /\ InTolerance(run.adc2) ) =>
               /\ status_.mode = kCalibrationComplete
               /\ status_.adc1_offset = run.adc1
               /\ status_.adc2_offset = run.adc2

C11_SecondRunOnLimits ==
  /\ CalibratingTick
  /\ run.ticks = kCalibrateCount
  /\ run.steady
  /\ run.adc1 = kAdcCentre + kAdcTolerance
  /\ run.adc2 = kAdcCentre - kAdcTolerance
  /\ run.offset1 = kAdcCentre + kAdcTolerance
  /\ status_.mode = kCalibrationComplete
  /\ status_.adc1_offset = kAdcCentre + kAdcTolerance
  /\ status_.adc2_offset = kAdcCentre - kAdcTolerance

(* The exact mean of the run's readings differs from 2048 by more than     *)
(* 200, and the mean as ISR_DoCalibrating computes it does.                *)
MeanOutOfTolerance(sum) ==
  Abs(sum - kCalibrateCount * kAdcCentre) > kCalibrateCount * kAdcTolerance

TruncatedMeanOutOfTolerance(sum) ==
  Abs((sum \div kCalibrateCount) - kAdcCentre) > kAdcTolerance

RunFaulted ==
  /\ status_.mode = kFault
  /\ status_.adc1_offset = run.offset1
  /\ status_.adc2_offset = run.offset2
  /\ CalibratingTick => status_.fault = kCalibrationFault

(* C12 as stated: a run of 256 ticks whose mean reading of either ADC is   *)
(* more than 200 from 2048 ends in kFault and kCalibrationFault, with the  *)
(* offsets unchanged.                                                      *)
C12_MeanFaults ==
  ( /\ run.ticks = kCalibrateCount
    /\ \/ MeanOutOfTolerance(run.sum1)
       \/ MeanOutOfTolerance(run.sum2) ) => RunFaulted

(* C12: the same for the means truncated to integers; the mode is kFault   *)
(* and the offsets are those from before the run for as long as the run    *)
(* is the last one, and the fault is kCalibrationFault when its last tick  *)
(* returns.                                                                *)
C12_TruncatedMeanFaults ==
  ( /\ run.ticks = kCalibrateCount
    /\ \/ TruncatedMeanOutOfTolerance(run.sum1)
       \/ TruncatedMeanOutOfTolerance(run.sum2) ) => RunFaulted

C12_LowReadingFaults ==
  /\ CalibratingTick
  /\ run.ticks = kCalibrateCount
  /\ run.steady
  /\ run.adc2 = kAdcCentre - kAdcTolerance - 1
  /\ run.offset2 = kAdcCentre - kAdcTolerance
  /\ status_.mode = kFault
  /\ status_.fault = kCalibrationFault
  /\ status_.adc2_offset = kAdcCentre - kAdcTolerance

----------------------------------------------------------------------------
(* Further claims checked under Spec.                                      *)

(* The tick that has just returned took the mode from kFault to kStopped.  *)
RecoveryTick ==
  isr.ran /\ isr.entry_mode = kFault /\ status_.mode = kStopped

----------------------------------------------------------------------------
(* Further claims checked under SpecModes.                                 *)

(* C14: when a tick has returned, pid_d and pid_q are zero unless the mode *)
(* is kCurrent or kPosition, and pid_position is zero unless the mode is   *)
(* kPosition; the ticks that end in kFault through the driver-fault or     *)
(* over-voltage check are among them.                                      *)
C14_UnusedPidZero ==
  isr.ran =>
    /\ status_.mode \notin {kCurrent, kPosition} =>
          status_.pid_d = 0 /\ status_.pid_q = 0
    /\ status_.mode # kPosition => status_.pid_position = 0

----------------------------------------------------------------------------
(* More claims checked under Spec.                                         *)

(* The tick that has just returned read a command for a mode other than    *)
(* the one it was in and other than kStopped, so that the reconciled mode  *)
(* is not kStopped and the two checks of ISR_DoControl ran.                *)
LeavingStoppedTick ==
  /\ isr.ran
  /\ ~assert_failed
  /\ isr.data.mode # isr.mode
  /\ isr.data.mode # kStopped

OverVoltage == status_.bus_V > config_.max_voltage

(* The step called no Do-function, did not switch the driver's power on    *)
(* and wrote nothing but zeros to the compare registers.                   *)
NoActuation ==
  /\ isr'.dispatched = "none"
  /\ motor_driver_'.power => motor_driver_.power
  /\ motor_driver_'.enable = motor_driver_.enable
  /\ pwm_ccr' \in {pwm_ccr, Vec3(0, 0, 0)}

(* C15: a tick that reconciles the mode towards an active mode ends in     *)
(* kFault with kMotorDriverFault when the driver reports a fault, and      *)
(* otherwise in kFault with kOverVoltage when bus_V is above max_voltage;  *)
(* such a tick does not actuate, and no tick takes the mode to an active   *)
(* mode while either condition is present.                                 *)
C15_ChecksBeforeActuation ==
  [][ /\ LeavingStoppedTick' /\ isr'.driver_fault =>
           /\ status_'.mode = kFault
           /\ status_'.fault = kMotorDriverFault
           /\ NoActuation
      /\ LeavingStoppedTick' /\ ~isr'.driver_fault /\ OverVoltage' =>
           /\ status_'.mode = kFault
           /\ status_'.fault = kOverVoltage
           /\ NoActuation
      /\ ( /\ isr'.ran
           /\ status_'.mode \in ActiveModes
           /\ status_.mode # status_'.mode ) =>
           ~isr'.driver_fault /\ ~OverVoltage' ]_vars

C15_BothConditions ==
  /\ LeavingStoppedTick
  /\ isr.entry_mode = kCalibrationComplete
  /\ isr.data = CmdPwm
  /\ isr.driver_fault
  /\ OverVoltage
  /\ status_.mode = kFault
  /\ status_.fault = kMotorDriverFault
  /\ pwm_ccr = Vec3(0, 0, 0)
  /\ ~motor_driver_.power

----------------------------------------------------------------------------
(* SpecTheta: the configuration is drawn when the program starts, with an  *)
(* odd and an even number of poles and a motor_offset of zero, of a        *)
(* quarter turn and of more than a turn (in 1/65536 turn).  The sensor     *)
(* reads on either side of the wrap and a quarter turn away.  The          *)
(* interrupt runs between the foreground's calls.                          *)
ThetaPoles == {7, 14}
ThetaOffsets == {0, 16384, 69632}
ThetaPositions == {0, 1, 16384, 65535}

InitTheta ==
  /\ config_ \in {[DefaultConfig EXCEPT !.motor_poles = p, !.motor_offset = o] :
                    p \in ThetaPoles, o \in ThetaOffsets}
  /\ InitState

TickTheta ==
  \E in \in Inputs(ThetaPositions, {<<2048, 2048>>}, {24}, {FALSE}) :
    ISR_HandleTimer(in, NoChoice)

NextTheta ==
  \/ TickTheta
  \/ ~Quiet /\ \E data \in Commands : CommandUninterrupted(data)
  \/ ~Quiet /\ PollUninterrupted

SpecTheta == InitTheta /\ [][NextTheta]_vars

(* Claims checked under SpecTheta.                                         *)

(* frac(x) = x - floor(x), in units of 1/kThetaOne turn.                   *)
Frac(x) == x % kThetaOne

(* C17: when a tick has returned, electrical_theta is 2 pi times           *)
(* frac(position_raw / 65536 * motor_poles / 2 - motor_offset), which is   *)
(* in [0, 2 pi).                                                           *)
C17_ThetaIsFraction ==
  isr.ran =>
    /\ status_.electrical_theta =
         Frac(status_.position_raw * config_.motor_poles
              - 2 * config_.motor_offset)
    /\ status_.electrical_theta >= 0
    /\ status_.electrical_theta < kThetaOne

----------------------------------------------------------------------------
(* SpecLive: every interleaving, with the interrupt firing for ever, a     *)
(* call of Command or PollMillisecond that has begun running on to its     *)
(* end, and PollMillisecond called again and again.  The ADCs read the     *)
(* centre, the sensor stands still, the bus is nominal; the driver may     *)
(* report a fault, and nothing obliges it to.                              *)
LiveCommands == {CmdStopped, CmdPwm, CmdVoltage}

TickLive ==
  \E in \in Inputs({0}, {<<kAdcCentre, kAdcCentre>>}, {24}, BOOLEAN) :
    ISR_HandleTimer(in, NoChoice)

(* A tick on which the driver reports no fault.                            *)
TickSound ==
  \E in \in Inputs({0}, {<<kAdcCentre, kAdcCentre>>}, {24}, {FALSE}) :
    ISR_HandleTimer(in, NoChoice)

ForegroundContinues ==
  /\ ~Quiet
  /\ \/ CommandCopyMode
     \/ CommandCopyRest
     \/ CommandSwapLoad
     \/ CommandSwapStoreCurrent
     \/ CommandSwapStoreNext
     \/ PollEnable
     \/ PollStore

PollCalled == ~Quiet /\ PollMillisecond

NextLive ==
  \/ TickLive
  \/ ~Quiet /\ \E data \in LiveCommands : Command(data)
  \/ ForegroundContinues
  \/ PollCalled

SpecLive ==
  /\ Init
  /\ [][NextLive]_vars
  /\ WF_vars(TickSound)
  /\ WF_vars(ForegroundContinues)
  /\ SF_vars(PollCalled)

(* Claims checked under SpecLive.                                          *)

(* The controller is stopped and the current command asks for mode m.      *)
StoppedWith(m) ==
  status_.mode = kStopped /\ data_buffers_[current_data_].mode = m

(* The mode is m and kEnabling, kCalibrating and kCalibrationComplete were *)
(* taken in this order since the mode was last kStopped.                   *)
StartedUp(m) == status_.mode = m /\ stage = 3

(* The current command no longer asks for m, or the tick that has just     *)
(* returned found the driver reporting a fault.                            *)
Released(m) ==
  \/ data_buffers_[current_data_].mode # m
  \/ isr.ran /\ isr.driver_fault

(* C18: from kStopped with a command for an active mode m current, the     *)
(* mode becomes m by way of kEnabling, kCalibrating and                    *)
(* kCalibrationComplete, unless the command is replaced or the driver      *)
(* reports a fault before.                                                 *)
C18_StartUpCompletes ==
  /\ StoppedWith(kPwm) ~> (StartedUp(kPwm) \/ Released(kPwm))
  /\ StoppedWith(kVoltage) ~> (StartedUp(kVoltage) \/ Released(kVoltage))

C18_VoltageStarted ==
  /\ isr.ran
  /\ isr.entry_mode = kCalibrationComplete
  /\ StartedUp(kVoltage)

----------------------------------------------------------------------------
(* More claims checked under SpecModes.                                    *)

(* C19: the assertion of ISR_DoPosition does not fail, and a tick that ran *)
(* ISR_DoPosition hands the current loop a d-axis current of magnitude at  *)
(* most max_current and a q-axis current of 0.                             *)
C19_PositionCurrentLimited ==
  /\ ~assert_failed
  /\ isr.ran /\ isr.dispatched = kPosition =>
        /\ FLessEq(FAbs(control_.i_d_A), isr.data.max_current)
        /\ control_.i_q_A = 0

----------------------------------------------------------------------------
(* SpecSet: every interleaving, with commands that carry a set_position    *)
(* and commands that do not, a sensor that steps by one count, a nominal   *)
(* bus and no driver fault.                                                *)
CmdPwmSet == [CmdPwm EXCEPT !.set_position = <<1>>]
SetCommands == {CmdStopped, CmdPwmSet}

TickSet ==
  \E in \in Inputs({0, 1}, {<<kAdcCentre, kAdcCentre>>}, {24}, {FALSE}) :
    ISR_HandleTimer(in, NoChoice)

NextSet ==
  \/ TickSet
  \/ ~Quiet /\ \E data \in SetCommands : Command(data)
  \/ ForegroundContinues
  \/ PollCalled

SpecSet == Init /\ [][NextSet]_vars

(* Claims checked under SpecSet.                                           *)

(* C20: a tick that reads a command with a set_position stores it in       *)
(* unwrapped_position_raw and clears it in the buffer; a tick that reads a *)
(* command without one changes unwrapped_position_raw by the sensed delta; *)
(* and no set_position that Command wrote is applied a second time,        *)
(* however many commands and swaps follow.                                 *)
C20_SetPositionOnce ==
  [][ /\ \A b \in {0, 1} : applied'[b] <= 1
      /\ isr'.ran =>
           LET data == data_buffers_[current_data_]
           IN IF data.set_position # <<>>
              THEN /\ status_'.unwrapped_position_raw =
                        SetPositionRaw(data.set_position[1])
                   /\ data_buffers_'[current_data_].set_position = <<>>
                   /\ applied'[current_data_] = applied[current_data_] + 1
              ELSE /\ status_'.unwrapped_position_raw =
                        status_.unwrapped_position_raw + isr'.delta_position
                   /\ applied' = applied
                   /\ data_buffers_' = data_buffers_ ]_vars

C20_AppliedThenSuperseded ==
  /\ isr.ran
  /\ isr.data = CmdStopped
  /\ isr.delta_position = 1
  /\ applied[current_data_] = 0
  /\ applied[next_data_] = 1
  /\ data_buffers_[next_data_] = CmdPwm
  /\ status_.unwrapped_position_raw = SetPositionRaw(1) + 1

----------------------------------------------------------------------------
(* Last claims checked under Spec.                                         *)

StartUpModes == {kEnabling, kCalibrating, kCalibrationComplete}

(* C21: whenever status_.mode is kEnabling, kCalibrating or                *)
(* kCalibrationComplete, between any two steps of the interrupt and the    *)
(* foreground, the three compare registers are 0 and the driver was last   *)
(* told Power(false).                                                      *)
C21_StartUpUndriven ==
  status_.mode \in StartUpModes => ZeroPwm /\ ~motor_driver_.power

C21_CalibratingByLateStore ==
  /\ status_.mode = kCalibrating
  /\ status_.fault = kMotorDriverFault
  /\ fg.pc = "idle"
  /\ ZeroPwm
  /\ ~motor_driver_.power

(* SpecFault: every interleaving, with all four causes of a fault at       *)
(* once: a sensor that jumps by 1001, ADC readings beyond the tolerance,   *)
(* a driver that can report a fault and a bus above ConfigMaxVoltage.      *)
AdcFault ==
  IF status_.mode # kCalibrating THEN {<<kAdcCentre, kAdcCentre>>}
  ELSE IF calibrate_count_ \in {0, kCalibrateCount - 1}
  THEN {<<kAdcCentre, kAdcCentre>>,
        <<kAdcCentre + kAdcTolerance + 1, kAdcCentre>>}
  ELSE {<<status_.adc1_raw, status_.adc2_raw>>}

TickFault ==
  \E in \in Inputs({0, 1001}, AdcFault, {24, 50}, BOOLEAN) :
    ISR_HandleTimer(in, NoChoice)

NextFault ==
  \/ TickFault
  \/ ~Quiet /\ \E data \in Commands : Command(data)
  \/ ~Quiet /\ CommandCopyMode
  \/ ~Quiet /\ CommandCopyRest
  \/ ~Quiet /\ CommandSwapLoad
  \/ ~Quiet /\ CommandSwapStoreCurrent
  \/ ~Quiet /\ CommandSwapStoreNext
  \/ ~Quiet /\ PollMillisecond
  \/ ~Quiet /\ PollEnable
  \/ ~Quiet /\ PollStore

SpecFault == Init /\ [][NextFault]_vars

FaultCodes ==
  {kMotorDriverFault, kOverVoltage, kEncoderFault, kCalibrationFault}

(* The tick that has just run took the mode into kFault.                   *)
EnteredFault ==
  isr.ran /\ ~assert_failed /\ isr.entry_mode # kFault /\ status_.mode = kFault

(* C22: when a tick has run to its end, status_.fault is kSuccess exactly  *)
(* when status_.mode is not kFault; a tick that took the mode into kFault  *)
(* has recorded one of the four error codes.                               *)
C22_FaultIffFaultMode ==
  /\ isr.ran /\ ~assert_failed =>
       (status_.fault = kSuccess <=> status_.mode # kFault)
  /\ EnteredFault => status_.fault \in FaultCodes

C22_CalibrationFaultRecorded ==
  /\ EnteredFault
  /\ isr.entry_mode = kCalibrating
  /\ status_.fault = kCalibrationFault

(* The tick that has just run found the command's mode equal to            *)
(* status_.mode after ISR_DoSense, in kStopped or in an active mode.       *)
SteadyTick ==
  /\ isr.ran
  /\ isr.data.mode = isr.mode
  /\ isr.mode \in {kStopped} \cup ActiveModes

(* The tick that has just run started in the active mode its command asks  *)
(* for.                                                                    *)
RunningCommanded ==
  /\ isr.ran
  /\ isr.entry_mode \in ActiveModes
  /\ isr.data.mode = isr.entry_mode

(* C23: a tick on which the command's mode equals status_.mode after       *)
(* sensing does not end in kFault with kMotorDriverFault or kOverVoltage,  *)
(* and a tick that takes a running, still commanded active mode to kFault  *)
(* records kEncoderFault.                                                  *)
C23_OnlyEncoderFaultEndsRun ==
  /\ SteadyTick =>
       ~(status_.mode = kFault
         /\ status_.fault \in {kMotorDriverFault, kOverVoltage})
  /\ RunningCommanded /\ status_.mode = kFault =>
       status_.fault = kEncoderFault

====
